---------------------------- MODULE Spec2Model ----------------------------
(***************************************************************************)
(* Model of the criteria-matching engine and the selection pipeline of     *)
(* literature_search (criteria_mapper.py, cli.py, config_loader.py).       *)
(*                                                                         *)
(* Python strings are TLA+ strings; Len, SubSeq, Head, Tail and \o are     *)
(* the character-level operations.  A publication is a function from the   *)
(* attribute names it carries to their values (a Python dict); Year is a   *)
(* tagged value because the adapters produce an int, '' or None.           *)
(***************************************************************************)
EXTENDS Integers, Sequences, FiniteSets, TLC

(***************************************************************************)
(* Python built-ins on str                                                 *)
(***************************************************************************)

\* the cased ASCII letters changed by str.lower()
UpperToLower ==
    [c \in {"A","B","C","D","E","F","G","H","I","J","K","L","M",
            "N","O","P","Q","R","S","T","U","V","W","X","Y","Z"} |->
        CASE c = "A" -> "a" [] c = "B" -> "b" [] c = "C" -> "c" [] c = "D" -> "d"
          [] c = "E" -> "e" [] c = "F" -> "f" [] c = "G" -> "g" [] c = "H" -> "h"
          [] c = "I" -> "i" [] c = "J" -> "j" [] c = "K" -> "k" [] c = "L" -> "l"
          [] c = "M" -> "m" [] c = "N" -> "n" [] c = "O" -> "o" [] c = "P" -> "p"
          [] c = "Q" -> "q" [] c = "R" -> "r" [] c = "S" -> "s" [] c = "T" -> "t"
          [] c = "U" -> "u" [] c = "V" -> "v" [] c = "W" -> "w" [] c = "X" -> "x"
          [] c = "Y" -> "y" [] c = "Z" -> "z"]

LowerChar(c) == IF c \in DOMAIN UpperToLower THEN UpperToLower[c] ELSE c

RECURSIVE Lower(_)
\* str.lower()
Lower(s) == IF Len(s) = 0 THEN "" ELSE LowerChar(Head(s)) \o Lower(Tail(s))

\* the ASCII characters str.strip() removes
Whitespace == {" ", "\t", "\n", "\r", "\f"}

RECURSIVE LStrip(_)
LStrip(s) == IF Len(s) > 0 /\ Head(s) \in Whitespace THEN LStrip(Tail(s)) ELSE s

RECURSIVE RStrip(_)
RStrip(s) ==
    IF Len(s) > 0 /\ SubSeq(s, Len(s), Len(s)) \in Whitespace
    THEN RStrip(SubSeq(s, 1, Len(s) - 1))
    ELSE s

\* str.strip()
Strip(s) == RStrip(LStrip(s))

\* variant: the empty string is in no string
Contains_NonEmptyOnly(sub, s) ==
    /\ Len(sub) > 0
    /\ \E i \in 1..(Len(s) - Len(sub) + 1) : SubSeq(s, i, i + Len(sub) - 1) = sub

\* sub in s
Contains(sub, s) ==
    \E i \in 1..(Len(s) - Len(sub) + 1) : SubSeq(s, i, i + Len(sub) - 1) = sub

\* s.find(c) + 1 for a single character c: position of the first c, 0 if none
Find(s, c) ==
    IF \E i \in 1..Len(s) : SubSeq(s, i, i) = c
    THEN CHOOSE i \in 1..Len(s) :
            /\ SubSeq(s, i, i) = c
            /\ \A j \in 1..(i - 1) : SubSeq(s, j, j) # c
    ELSE 0

\* s.split(c, 1) for a string s that contains c: the pair around the first c
Split1(s, c) ==
    LET k == Find(s, c)
    IN  <<SubSeq(s, 1, k - 1), SubSeq(s, k + 1, Len(s))>>

RECURSIVE Join(_, _)
\* sep.join(xs)
Join(sep, xs) ==
    IF Len(xs) = 0 THEN ""
    ELSE IF Len(xs) = 1 THEN xs[1]
    ELSE xs[1] \o sep \o Join(sep, Tail(xs))

(***************************************************************************)
(* criteria_mapper.py                                                      *)
(***************************************************************************)

\* the keys of DATABASE_FIELD_MAPPINGS
DatabaseNames ==
    {"PubMed", "CrossRef", "arXiv", "CORE", "SemanticScholar",
     "IEEE", "Springer", "DBLP", "Scopus"}

\* the entries every table of DATABASE_FIELD_MAPPINGS has
CommonFields ==
    {<<"type", "Type">>, <<"publication_type", "Type">>,
     <<"language", "Language">>, <<"source", "Source">>,
     <<"journal", "Journal">>, <<"authors", "Authors">>}

\* a table set in which every database has the common entries only
DATABASE_FIELD_MAPPINGS_CommonOnly ==
    [db \in DatabaseNames |-> CommonFields]

\* DATABASE_FIELD_MAPPINGS: per database, the set of (criteria field, attribute)
DATABASE_FIELD_MAPPINGS ==
    [db \in DatabaseNames |->
        CommonFields \cup
        CASE db = "PubMed" -> {<<"pubtype", "Type">>}
          [] db = "CORE" -> {<<"document_type", "Type">>}
          [] db = "SemanticScholar" -> {<<"venue", "Journal">>}
          [] db = "IEEE" -> {<<"content_type", "Type">>,
                             <<"publication_title", "Journal">>}
          [] db = "Springer" -> {<<"content_type", "Type">>,
                                 <<"publication_name", "Journal">>}
          [] db = "DBLP" -> {<<"venue", "Journal">>}
          [] db = "Scopus" -> {<<"aggregation_type", "Type">>,
                               <<"publication_name", "Journal">>}
          [] OTHER -> {}]

\* variant: the source is compared without lower-casing it (sensitivity of C9)
get_database_name_from_source_CaseSensitive(source) ==
    IF source \in {"med", "pmc", "pmcid"} THEN "PubMed"
    ELSE IF source = "crossref" THEN "CrossRef"
    ELSE IF source = "arxiv" THEN "arXiv"
    ELSE IF source = "core" THEN "CORE"
    ELSE IF source = "semanticscholar" THEN "SemanticScholar"
    ELSE IF source = "ieee" THEN "IEEE"
    ELSE IF source = "springer" THEN "Springer"
    ELSE IF source = "dblp" THEN "DBLP"
    ELSE IF source = "scopus" THEN "Scopus"
    ELSE "PubMed"

get_database_name_from_source(source) ==
    LET source_lower == Lower(source)
    IN  IF source_lower \in {"med", "pmc", "pmcid"} THEN "PubMed"
        ELSE IF source_lower = "crossref" THEN "CrossRef"
        ELSE IF source_lower = "arxiv" THEN "arXiv"
        ELSE IF source_lower = "core" THEN "CORE"
        ELSE IF source_lower = "semanticscholar" THEN "SemanticScholar"
        ELSE IF source_lower = "ieee" THEN "IEEE"
        ELSE IF source_lower = "springer" THEN "Springer"
        ELSE IF source_lower = "dblp" THEN "DBLP"
        ELSE IF source_lower = "scopus" THEN "Scopus"
        ELSE "PubMed"

\* variant: an unknown database falls back to the PubMed table instead of the
\* empty table (sensitivity of C10)
get_mapped_field_for_criteria_PubMedDefault(db_name, criteria_field) ==
    LET mapping == IF db_name \in DOMAIN DATABASE_FIELD_MAPPINGS
                   THEN DATABASE_FIELD_MAPPINGS[db_name]
                   ELSE DATABASE_FIELD_MAPPINGS["PubMed"]
        key == Lower(criteria_field)
    IN  IF \E e \in mapping : e[1] = key
        THEN (CHOOSE e \in mapping : e[1] = key)[2]
        ELSE "Type"

get_mapped_field_for_criteria(db_name, criteria_field) ==
    LET mapping == IF db_name \in DOMAIN DATABASE_FIELD_MAPPINGS
                   THEN DATABASE_FIELD_MAPPINGS[db_name] ELSE {}
        key == Lower(criteria_field)
    IN  IF \E e \in mapping : e[1] = key
        THEN (CHOOSE e \in mapping : e[1] = key)[2]
        ELSE "Type"

\* position of the last c in s, 0 if none
FindLast(s, c) ==
    IF \E i \in 1..Len(s) : SubSeq(s, i, i) = c
    THEN CHOOSE i \in 1..Len(s) :
            /\ SubSeq(s, i, i) = c
            /\ \A j \in (i + 1)..Len(s) : SubSeq(s, j, j) # c
    ELSE 0

\* variant: the string is split on its last ':' (sensitivity of C8)
ParseOne_LastColon(raw) ==
    LET criteria == Strip(raw)
        k == FindLast(criteria, ":")
    IN  IF Contains(":", criteria)
        THEN [field |-> Lower(Strip(SubSeq(criteria, 1, k - 1))),
              value |-> Lower(Strip(SubSeq(criteria, k + 1, Len(criteria))))]
        ELSE [field |-> "type", value |-> Lower(criteria)]

\* variant: a criterion without ':' is given the field 'journal'
ParseOne_BareIsJournal(raw) ==
    LET criteria == Strip(raw)
    IN  IF Contains(":", criteria)
        THEN LET fv == Split1(criteria, ":")
             IN  [field |-> Lower(Strip(fv[1])), value |-> Lower(Strip(fv[2]))]
        ELSE [field |-> "journal", value |-> Lower(criteria)]

\* the dict appended for one criteria string (body of the loop)
ParseOne(raw) ==
    LET criteria == Strip(raw)
    IN  IF Contains(":", criteria)
        THEN LET fv == Split1(criteria, ":")
             IN  [field |-> Lower(Strip(fv[1])), value |-> Lower(Strip(fv[2]))]
        ELSE [field |-> "type", value |-> Lower(criteria)]

parse_criteria_with_fields(criteria_list) ==
    [k \in 1..Len(criteria_list) |-> ParseOne(criteria_list[k])]

\* variant: publication.get(key), whose None is written 'None' by str()
Get_DefaultNone(publication, key) ==
    IF key \in DOMAIN publication THEN publication[key] ELSE "None"

\* publication.get(key, '')
Get(publication, key) ==
    IF key \in DOMAIN publication THEN publication[key] ELSE ""

\* pub_value of a parsed criterion: str(publication.get(field_name, '')).lower()
PubValue(publication, db_name, criteria) ==
    Lower(Get(publication, get_mapped_field_for_criteria(db_name, criteria.field)))

RECURSIVE AnyMatch_Equality(_, _, _)
\* variant: a criterion matches only when its value equals the attribute
\* (sensitivity of C3)
AnyMatch_Equality(publication, db_name, parsed_criteria) ==
    IF Len(parsed_criteria) = 0 THEN FALSE
    ELSE IF Head(parsed_criteria).value
               = PubValue(publication, db_name, Head(parsed_criteria))
         THEN TRUE
         ELSE AnyMatch_Equality(publication, db_name, Tail(parsed_criteria))

RECURSIVE AnyMatch_MatchesAll(_, _, _)
\* variant: True only when every criterion matches
AnyMatch_MatchesAll(publication, db_name, parsed_criteria) ==
    IF Len(parsed_criteria) = 0 THEN TRUE
    ELSE IF Contains(Head(parsed_criteria).value,
                     PubValue(publication, db_name, Head(parsed_criteria)))
         THEN AnyMatch_MatchesAll(publication, db_name, Tail(parsed_criteria))
         ELSE FALSE

RECURSIVE AnyMatch(_, _, _)
\* the for loop of check_criteria_match: True at the first criterion that matches
AnyMatch(publication, db_name, parsed_criteria) ==
    IF Len(parsed_criteria) = 0 THEN FALSE
    ELSE IF Contains(Head(parsed_criteria).value,
                     PubValue(publication, db_name, Head(parsed_criteria)))
         THEN TRUE
         ELSE AnyMatch(publication, db_name, Tail(parsed_criteria))

\* variant: an empty criteria list matches nothing (sensitivity of C4)
check_criteria_match_EmptyIsNoMatch(publication, criteria_list) ==
    AnyMatch(publication,
             get_database_name_from_source(Get(publication, "Source")),
             parse_criteria_with_fields(criteria_list))

check_criteria_match(publication, criteria_list) ==
    IF Len(criteria_list) = 0 THEN TRUE
    ELSE AnyMatch(publication,
                  get_database_name_from_source(Get(publication, "Source")),
                  parse_criteria_with_fields(criteria_list))

\* variant: the field name is written also for the field 'type' (sensitivity of C7)
MissingReason_NoLegacy(criteria, criteria_type) ==
    "Missing " \o criteria_type \o " " \o criteria.field \o ": " \o criteria.value

\* the reason appended for one unmet criterion
MissingReason(criteria, criteria_type) ==
    IF criteria.field = "type"
    THEN "Missing " \o criteria_type \o ": " \o criteria.value
    ELSE "Missing " \o criteria_type \o " " \o criteria.field \o ": " \o criteria.value

RECURSIVE MismatchLoop(_, _, _, _)
\* the for loop of get_criteria_mismatch_reasons
MismatchLoop(publication, db_name, parsed_criteria, criteria_type) ==
    IF Len(parsed_criteria) = 0 THEN <<>>
    ELSE (IF ~Contains(Head(parsed_criteria).value,
                       PubValue(publication, db_name, Head(parsed_criteria)))
          THEN <<MissingReason(Head(parsed_criteria), criteria_type)>>
          ELSE <<>>)
         \o MismatchLoop(publication, db_name, Tail(parsed_criteria), criteria_type)

get_criteria_mismatch_reasons(publication, criteria_list, criteria_type) ==
    IF Len(criteria_list) = 0 THEN <<>>
    ELSE MismatchLoop(publication,
                      get_database_name_from_source(Get(publication, "Source")),
                      parse_criteria_with_fields(criteria_list),
                      criteria_type)

(***************************************************************************)
(* Input values                                                            *)
(***************************************************************************)

\* the values the adapters of api_clients.py give to Year
YearInt(n) == [t |-> "int", n |-> n]
YearStr(s) == [t |-> "str", s |-> s]
YearNone == [t |-> "none"]

\* Python truthiness of a Year value
Truthy(year) ==
    CASE year.t = "int" -> year.n # 0
      [] year.t = "str" -> year.s # ""
      [] OTHER -> FALSE

\* canonical records as the adapters build them
PubMedicine ==
    [Title |-> "Neural Networks", Source |-> "MED", Authors |-> "Smith",
     Year |-> YearInt(2022), Journal |-> "Nature Medicine",
     Language |-> "English", Type |-> "journal-article"]
PubConference ==
    [Title |-> "Deep Learning", Source |-> "CrossRef", Authors |-> "Jones",
     Year |-> YearInt(2021), Journal |-> "ICML Proceedings",
     Language |-> "English", Type |-> "proceedings-article"]
PubPreprint ==
    [Title |-> "ML Preprint", Source |-> "arXiv", Authors |-> "Brown",
     Year |-> YearInt(2023), Journal |-> "arXiv",
     Language |-> "English", Type |-> "preprint"]
PubNoYear ==
    [Title |-> "Undated", Source |-> "PMC", Authors |-> "A, B",
     Year |-> YearStr(""), Journal |-> "Review Journal",
     Language |-> "English", Type |-> "Review"]
PubYearZero ==
    [Title |-> "Year Zero", Source |-> "CORE", Authors |-> "B, A",
     Year |-> YearInt(0), Journal |-> "Some Journal",
     Language |-> "ENGLISH", Type |-> "research article"]
PubNullYear ==
    [Title |-> "Venue Paper", Source |-> "SemanticScholar", Authors |-> "Lee",
     Year |-> YearNone, Journal |-> "ICML",
     Language |-> "English", Type |-> "journal article"]
PubOld ==
    [Title |-> "neural networks", Source |-> "MED", Authors |-> "Smith",
     Year |-> YearInt(2019), Journal |-> "Old Journal",
     Language |-> "Spanish", Type |-> "review"]
\* a record without Type and Language: no adapter builds one
PubNoType ==
    [Title |-> "Bare", Source |-> "DBLP", Authors |-> "",
     Year |-> YearInt(2021), Journal |-> "VLDB"]

PubSet ==
    {PubMedicine, PubConference, PubPreprint, PubNoYear,
     PubYearZero, PubNullYear, PubOld}

\* the longest list of records the databases return in one run
MaxPubs == 2

RECURSIVE SeqsUpTo(_, _)
\* the sequences over S of length at most n
SeqsUpTo(S, n) ==
    IF n = 0 THEN {<<>>}
    ELSE LET shorter == SeqsUpTo(S, n - 1)
         IN  shorter \cup {Append(q, e) : q \in {r \in shorter : Len(r) = n - 1}, e \in S}

\* date_range values of the configuration file
DateRanges == {"2020-2025", "0-2025", "2021", "2025-2020", "soon"}

\* inclusion_criteria values of the configuration file
InclusionLists ==
    {<<>>,
     <<"type:journal", "language:english">>,
     <<"Journal", "review">>,
     <<"venue:icml", "Language: Spanish ">>}

\* exclusion_criteria values of the configuration file
ExclusionLists ==
    {<<>>,
     <<"type:proceedings", "source:arxiv">>,
     <<"conference">>,
     <<"Review ", "journal:Old">>,
     <<"Type: Preprint", "proceedings", "language:spanish">>}

(***************************************************************************)
(* int(), config_loader.load_config, cli.parse_date_range                  *)
(***************************************************************************)

DigitValue ==
    [c \in {"0","1","2","3","4","5","6","7","8","9"} |->
        CASE c = "0" -> 0 [] c = "1" -> 1 [] c = "2" -> 2 [] c = "3" -> 3
          [] c = "4" -> 4 [] c = "5" -> 5 [] c = "6" -> 6 [] c = "7" -> 7
          [] c = "8" -> 8 [] c = "9" -> 9]

CharAt(s, i) == SubSeq(s, i, i)

\* digits with single underscores between them, as int() accepts
IsDigits(s) ==
    /\ Len(s) > 0
    /\ CharAt(s, 1) \in DOMAIN DigitValue
    /\ CharAt(s, Len(s)) \in DOMAIN DigitValue
    /\ \A i \in 1..Len(s) :
          \/ CharAt(s, i) \in DOMAIN DigitValue
          \/ CharAt(s, i) = "_" /\ CharAt(s, i + 1) # "_"

RECURSIVE DigitsValue(_, _)
DigitsValue(s, acc) ==
    IF Len(s) = 0 THEN acc
    ELSE IF Head(s) = "_" THEN DigitsValue(Tail(s), acc)
    ELSE DigitsValue(Tail(s), 10 * acc + DigitValue[Head(s)])

\* int(s): [ok |-> TRUE, v |-> n], or [ok |-> FALSE] for a ValueError
ParseInt(s) ==
    LET t == Strip(s)
        signed == Len(t) > 0 /\ Head(t) \in {"+", "-"}
        body == IF signed THEN Tail(t) ELSE t
    IN  IF IsDigits(body)
        THEN [ok |-> TRUE,
              v |-> IF signed /\ Head(t) = "-"
                    THEN 0 - DigitsValue(body, 0) ELSE DigitsValue(body, 0)]
        ELSE [ok |-> FALSE]

\* variant: the two parts of a range are not converted
load_config_RangeUnconverted(input_data) ==
    LET date_range == input_data.date_range
    IN  IF Contains("-", date_range)
        THEN TRUE
        ELSE LET year == ParseInt(Strip(date_range))
             IN  /\ year.ok
                 /\ ~(year.v < 1000 \/ year.v > 9999)

\* variant: the years of a range are not compared
load_config_NoOrderCheck(input_data) ==
    LET date_range == input_data.date_range
    IN  IF Contains("-", date_range)
        THEN LET se == Split1(date_range, "-")
                 start_year == ParseInt(Strip(se[1]))
                 end_year == ParseInt(Strip(se[2]))
             IN  /\ start_year.ok
                 /\ end_year.ok
        ELSE LET year == ParseInt(Strip(date_range))
             IN  /\ year.ok
                 /\ ~(year.v < 1000 \/ year.v > 9999)

\* the date_range validation of load_config: TRUE when the configuration is
\* returned, FALSE when load_config exits
load_config(input_data) ==
    LET date_range == input_data.date_range
    IN  IF Contains("-", date_range)
        THEN LET se == Split1(date_range, "-")
                 start_year == ParseInt(Strip(se[1]))
                 end_year == ParseInt(Strip(se[2]))
             IN  /\ start_year.ok
                 /\ end_year.ok
                 /\ ~(start_year.v > end_year.v)
        ELSE LET year == ParseInt(Strip(date_range))
             IN  /\ year.ok
                 /\ ~(year.v < 1000 \/ year.v > 9999)

\* re.match(r'^\d{4}(-\d{4})?$', date_range): '$' also matches before a
\* newline that ends the string
MatchesYearPattern(date_range) ==
    LET body == IF Len(date_range) > 0 /\ CharAt(date_range, Len(date_range)) = "\n"
                THEN SubSeq(date_range, 1, Len(date_range) - 1) ELSE date_range
        FourDigits(t) == Len(t) = 4 /\ \A k \in 1..4 : CharAt(t, k) \in DOMAIN DigitValue
    IN  \/ FourDigits(body)
        \/ /\ Len(body) = 9
           /\ FourDigits(SubSeq(body, 1, 4))
           /\ CharAt(body, 5) = "-"
           /\ FourDigits(SubSeq(body, 6, 9))

\* _validate_date_range of research_search_shanaka.config_loader: TRUE when
\* it returns, FALSE when it raises ValueError
validate_date_range(date_range) ==
    /\ MatchesYearPattern(date_range)
    /\ Contains("-", date_range) =>
          LET se == Split1(date_range, "-")
          IN  ~(ParseInt(se[1]).v > ParseInt(se[2]).v)

\* variant: the ValueError of int() is not caught
parse_date_range_Propagates(date_range) ==
    IF Contains("-", date_range)
    THEN LET se == Split1(date_range, "-")
             start == ParseInt(Strip(se[1]))
             end == ParseInt(Strip(se[2]))
         IN  IF start.ok /\ end.ok
             THEN [ok |-> TRUE, start |-> start.v, end |-> end.v]
             ELSE [ok |-> FALSE, raised |-> "ValueError"]
    ELSE LET year == ParseInt(Strip(date_range))
         IN  IF year.ok
             THEN [ok |-> TRUE, start |-> year.v, end |-> year.v]
             ELSE [ok |-> FALSE, raised |-> "ValueError"]

\* parse_date_range: [ok |-> TRUE, start, end] for the returned tuple, or
\* [ok |-> FALSE, raised] for what leaves the function instead: the except
\* clause of lines 48-50 turns the ValueError of int() into sys.exit(1)
parse_date_range(date_range) ==
    IF Contains("-", date_range)
    THEN LET se == Split1(date_range, "-")
             start == ParseInt(Strip(se[1]))
             end == ParseInt(Strip(se[2]))
         IN  IF start.ok /\ end.ok
             THEN [ok |-> TRUE, start |-> start.v, end |-> end.v]
             ELSE [ok |-> FALSE, raised |-> "SystemExit"]
    ELSE LET year == ParseInt(Strip(date_range))
         IN  IF year.ok
             THEN [ok |-> TRUE, start |-> year.v, end |-> year.v]
             ELSE [ok |-> FALSE, raised |-> "SystemExit"]

(***************************************************************************)
(* cli.remove_duplicates                                                   *)
(***************************************************************************)

\* variant: the identifier is the lower-cased title alone
Identifier_TitleOnly(pub) == <<Lower(pub["Title"])>>

\* identifier = (pub['Title'].lower(), tuple(pub['Authors']))
Identifier(pub) == <<Lower(pub["Title"]), pub["Authors"]>>

RECURSIVE DedupLoop_KeepsLast(_, _, _, _)
\* variant: a later record with a seen identifier takes the place of the kept one
DedupLoop_KeepsLast(publications, seen, unique_publications, total_duplicates) ==
    IF Len(publications) = 0
    THEN [unique |-> unique_publications, duplicates |-> total_duplicates]
    ELSE LET pub == Head(publications)
         IN  IF Identifier(pub) \notin seen
             THEN DedupLoop_KeepsLast(Tail(publications), seen \cup {Identifier(pub)},
                                      Append(unique_publications, pub), total_duplicates)
             ELSE DedupLoop_KeepsLast(
                      Tail(publications), seen,
                      [k \in 1..Len(unique_publications) |->
                          IF Identifier(unique_publications[k]) = Identifier(pub)
                          THEN pub ELSE unique_publications[k]],
                      total_duplicates + 1)

RECURSIVE DedupLoop_ForgetsOnDuplicate(_, _, _, _)
\* variant: a dropped duplicate takes its identifier out of seen
DedupLoop_ForgetsOnDuplicate(publications, seen, unique_publications, total_duplicates) ==
    IF Len(publications) = 0
    THEN [unique |-> unique_publications, duplicates |-> total_duplicates]
    ELSE LET pub == Head(publications)
         IN  IF Identifier(pub) \notin seen
             THEN DedupLoop_ForgetsOnDuplicate(
                      Tail(publications), seen \cup {Identifier(pub)},
                      Append(unique_publications, pub), total_duplicates)
             ELSE DedupLoop_ForgetsOnDuplicate(
                      Tail(publications), seen \ {Identifier(pub)},
                      unique_publications, total_duplicates + 1)

RECURSIVE DedupLoop_KeepsDuplicates(_, _, _, _)
\* variant: a duplicate is counted and kept
DedupLoop_KeepsDuplicates(publications, seen, unique_publications, total_duplicates) ==
    IF Len(publications) = 0
    THEN [unique |-> unique_publications, duplicates |-> total_duplicates]
    ELSE LET pub == Head(publications)
         IN  IF Identifier(pub) \notin seen
             THEN DedupLoop_KeepsDuplicates(Tail(publications),
                                            seen \cup {Identifier(pub)},
                                            Append(unique_publications, pub),
                                            total_duplicates)
             ELSE DedupLoop_KeepsDuplicates(Tail(publications), seen,
                                            Append(unique_publications, pub),
                                            total_duplicates + 1)

RECURSIVE DedupLoop(_, _, _, _)
\* the for loop of lines 90-96
DedupLoop(publications, seen, unique_publications, total_duplicates) ==
    IF Len(publications) = 0
    THEN [unique |-> unique_publications, duplicates |-> total_duplicates]
    ELSE LET pub == Head(publications)
         IN  IF Identifier(pub) \notin seen
             THEN DedupLoop(Tail(publications), seen \cup {Identifier(pub)},
                            Append(unique_publications, pub), total_duplicates)
             ELSE DedupLoop(Tail(publications), seen,
                            unique_publications, total_duplicates + 1)

remove_duplicates(publications) == DedupLoop(publications, {}, <<>>, 0)

(***************************************************************************)
(* cli.search_prisma: one iteration of the selection loop                  *)
(***************************************************************************)

\* variant: a record without a Year passes the date check (sensitivity of C6)
InDateRange_AbsentIsWildcard(pub, start_year, end_year) ==
    \/ ~Truthy(pub["Year"])
    \/ /\ start_year <= pub["Year"].n
       /\ pub["Year"].n <= end_year

\* in_date_range = pub['Year'] and (start_year <= pub['Year'] <= end_year)
\* (a truthy Year that is no int cannot be compared: see YearComparable)
InDateRange(pub, start_year, end_year) ==
    /\ Truthy(pub["Year"])
    /\ start_year <= pub["Year"].n
    /\ pub["Year"].n <= end_year

\* FALSE when the comparison of line 163 raises TypeError
YearComparable(pub) == Truthy(pub["Year"]) => pub["Year"].t = "int"

\* the reason lines 175-187 append for one exclusion criterion: a sequence of
\* zero or one reason
HasExclusionReason(pub, criteria) ==
    IF Contains(":", criteria)
    THEN LET fv == Split1(criteria, ":")
             field == Lower(Strip(fv[1]))
             value == Lower(Strip(fv[2]))
             field_name == get_mapped_field_for_criteria(
                               get_database_name_from_source(Get(pub, "Source")), field)
             pub_value == Lower(Get(pub, field_name))
         IN  IF Contains(value, pub_value)
             THEN IF field = "type"
                  THEN <<"Has exclusion type: " \o value>>
                  ELSE <<"Has exclusion " \o field \o ": " \o value>>
             ELSE <<>>
    ELSE IF Contains(Lower(criteria), Lower(pub["Type"]))
         THEN <<"Has exclusion: " \o Lower(criteria)>>
         ELSE <<>>

RECURSIVE ExclusionReasons(_, _)
\* the for loop of lines 174-187
ExclusionReasons(pub, exclusion_criteria) ==
    IF Len(exclusion_criteria) = 0 THEN <<>>
    ELSE HasExclusionReason(pub, Head(exclusion_criteria))
         \o ExclusionReasons(pub, Tail(exclusion_criteria))

\* TRUE when lines 174-187 read pub['Type'] of a record that has none (KeyError)
ExclusionLoopRaises(pub, exclusion_criteria) ==
    /\ "Type" \notin DOMAIN pub
    /\ \E k \in 1..Len(exclusion_criteria) : ~Contains(":", exclusion_criteria[k])

\* TRUE when the result row of lines 195-202 reads an attribute the record lacks
RowRaises(pub) == ~({"Title", "Authors", "Year", "Journal"} \subseteq DOMAIN pub)

RECURSIVE CountReasons_Once(_, _)
\* variant: a reason is entered with the count 1 every time it occurs
CountReasons_Once(by_criteria, reasons) ==
    IF Len(reasons) = 0 THEN by_criteria
    ELSE LET r == Head(reasons)
             entered == [k \in DOMAIN by_criteria \cup {r} |->
                           IF k = r THEN 1 ELSE by_criteria[k]]
         IN  CountReasons_Once(entered, Tail(reasons))

\* criteria_counts['by_criteria'][r] += 1 for every r of reasons
RECURSIVE CountReasons(_, _)
CountReasons(by_criteria, reasons) ==
    IF Len(reasons) = 0 THEN by_criteria
    ELSE LET r == Head(reasons)
             bumped == [k \in DOMAIN by_criteria \cup {r} |->
                          IF k = r
                          THEN (IF r \in DOMAIN by_criteria THEN by_criteria[r] ELSE 0) + 1
                          ELSE by_criteria[k]]
         IN  CountReasons(bumped, Tail(reasons))

(***************************************************************************)
(* State of one run of search_prisma, and of one call of a function of     *)
(* criteria_mapper.py                                                      *)
(***************************************************************************)

VARIABLES
    pc,                  \* position in search_prisma
    input_data,          \* the configuration file's content
    date_range, start_year, end_year,
    inclusion_criteria, exclusion_criteria,
    publications, total_duplicates,
    i,                   \* number of publications the selection loop has taken
    included, reasons, in_date_range, has_inclusion,
    results, criteria_counts, total_records,
    call,                \* a call of a function: its arguments
    ret,                 \* its return value, once it has returned
    attempt,             \* robust_get: the attempts its loop has finished
    sent,                \* the outcomes of the requests.get calls issued so far
    slept                \* the waits passed to time.sleep so far

config_vars == <<date_range, start_year, end_year, inclusion_criteria, exclusion_criteria>>
loop_vars == <<i, included, reasons, in_date_range, has_inclusion, results, criteria_counts>>
call_vars == <<call, ret>>
get_vars == <<attempt, sent, slept>>
vars == <<pc, input_data, config_vars, publications, total_duplicates, loop_vars,
          total_records, call_vars, get_vars>>

NoCall == [fn |-> "none"]
NoReturn == [done |-> FALSE]

\* no request has been made
NoRequest ==
    /\ attempt = 0
    /\ sent = <<>>
    /\ slept = <<>>

\* the locals of search_prisma before it has assigned them
Unassigned ==
    /\ date_range = ""
    /\ start_year = 0
    /\ end_year = 0
    /\ inclusion_criteria = <<>>
    /\ exclusion_criteria = <<>>
    /\ publications = <<>>
    /\ total_duplicates = 0
    /\ i = 0
    /\ included = FALSE
    /\ reasons = <<>>
    /\ in_date_range = FALSE
    /\ has_inclusion = FALSE
    /\ results = <<>>
    /\ criteria_counts = [inclusion |-> 0, exclusion |-> 0, by_criteria |-> <<>>]
    /\ total_records = 0

Init ==
    /\ pc = "start"
    /\ input_data \in [date_range : DateRanges,
                       inclusion_criteria : InclusionLists,
                       exclusion_criteria : ExclusionLists]
    /\ Unassigned
    /\ call = NoCall
    /\ ret = NoReturn
    /\ NoRequest

\* [c.lower() for c in criteria_list]
LowerAll(criteria_list) == [k \in 1..Len(criteria_list) |-> Lower(criteria_list[k])]

\* search_prisma up to the database searches: load_config, parse_date_range and
\* the lower-cased criteria lists
Configure ==
    /\ pc = "start"
    /\ IF load_config(input_data) /\ parse_date_range(input_data.date_range).ok
       THEN /\ date_range' = input_data.date_range
            /\ start_year' = parse_date_range(input_data.date_range).start
            /\ end_year' = parse_date_range(input_data.date_range).end
            /\ inclusion_criteria' = LowerAll(input_data.inclusion_criteria)
            /\ exclusion_criteria' = LowerAll(input_data.exclusion_criteria)
            /\ pc' = "search"
       ELSE /\ pc' = "exit"
            /\ UNCHANGED config_vars
    /\ UNCHANGED <<input_data, publications, total_duplicates, loop_vars,
                   total_records, call_vars, get_vars>>

\* the searches of all databases: the records the adapters return, in order
SearchDatabases ==
    /\ pc = "search"
    /\ \E found \in SeqsUpTo(PubSet, MaxPubs) : publications' = found
    /\ pc' = "dedupe"
    /\ UNCHANGED <<input_data, config_vars, total_duplicates, loop_vars,
                   total_records, call_vars, get_vars>>

\* publications, total_duplicates = remove_duplicates(publications)
RemoveDuplicates ==
    /\ pc = "dedupe"
    /\ publications' = remove_duplicates(publications).unique
    /\ total_duplicates' = remove_duplicates(publications).duplicates
    /\ pc' = "select"
    /\ UNCHANGED <<input_data, config_vars, loop_vars, total_records, call_vars, get_vars>>

\* variant: a match of the exclusion criteria does not reset included
\* (sensitivity of C1)
Decide_ExclusionIgnored(pub) ==
    LET in_range == InDateRange(pub, start_year, end_year)
        has_inc == check_criteria_match(pub, inclusion_criteria)
        excluded == check_criteria_match(pub, exclusion_criteria)
        inc == in_range /\ has_inc
        has_exclusion == IF excluded THEN ExclusionReasons(pub, exclusion_criteria)
                         ELSE <<>>
        outside == IF ~inc /\ ~in_range
                   THEN <<"Published outside " \o date_range>> ELSE <<>>
        missing == IF ~inc /\ ~has_inc
                   THEN get_criteria_mismatch_reasons(pub, inclusion_criteria, "inclusion")
                   ELSE <<>>
    IN  [in_date_range |-> in_range, has_inclusion |-> has_inc, included |-> inc,
         reasons |-> has_exclusion \o outside \o missing]

\* variant: the date reason is appended before the exclusion reasons
Decide_OutsideFirst(pub) ==
    LET in_range == InDateRange(pub, start_year, end_year)
        has_inc == check_criteria_match(pub, inclusion_criteria)
        excluded == check_criteria_match(pub, exclusion_criteria)
        inc == in_range /\ has_inc /\ ~excluded
        has_exclusion == IF excluded THEN ExclusionReasons(pub, exclusion_criteria)
                         ELSE <<>>
        outside == IF ~inc /\ ~in_range
                   THEN <<"Published outside " \o date_range>> ELSE <<>>
        missing == IF ~inc /\ ~has_inc
                   THEN get_criteria_mismatch_reasons(pub, inclusion_criteria, "inclusion")
                   ELSE <<>>
    IN  [in_date_range |-> in_range, has_inclusion |-> has_inc, included |-> inc,
         reasons |-> outside \o has_exclusion \o missing]

\* the decision of one loop iteration for pub: lines 161-194
Decide(pub) ==
    LET in_range == InDateRange(pub, start_year, end_year)
        has_inc == check_criteria_match(pub, inclusion_criteria)
        excluded == check_criteria_match(pub, exclusion_criteria)
        inc == in_range /\ has_inc /\ ~excluded
        has_exclusion == IF excluded THEN ExclusionReasons(pub, exclusion_criteria)
                         ELSE <<>>
        outside == IF ~inc /\ ~in_range
                   THEN <<"Published outside " \o date_range>> ELSE <<>>
        missing == IF ~inc /\ ~has_inc
                   THEN get_criteria_mismatch_reasons(pub, inclusion_criteria, "inclusion")
                   ELSE <<>>
    IN  [in_date_range |-> in_range, has_inclusion |-> has_inc, included |-> inc,
         reasons |-> has_exclusion \o outside \o missing]

\* the value of included after lines 163-172 for pub under the given criteria
\* lists and the date range of the run
IncludedWith(pub, inclusion, exclusion) ==
    /\ InDateRange(pub, start_year, end_year)
    /\ check_criteria_match(pub, inclusion)
    /\ ~check_criteria_match(pub, exclusion)

\* TRUE when the iteration for pub raises (KeyError or TypeError)
Raises(pub) ==
    \/ "Year" \notin DOMAIN pub
    \/ ~YearComparable(pub)
    \/ /\ check_criteria_match(pub, exclusion_criteria)
       /\ ExclusionLoopRaises(pub, exclusion_criteria)
    \/ RowRaises(pub)

\* the row appended to results: lines 195-202
Row(pub, d) ==
    [Title |-> pub["Title"], Authors |-> pub["Authors"], Year |-> pub["Year"],
     Journal |-> pub["Journal"],
     Included |-> IF d.included THEN "Yes" ELSE "No",
     Reasons |-> IF Len(d.reasons) > 0 THEN Join("; ", d.reasons)
                 ELSE "Meets all criteria"]

\* variant: an excluded record is counted by its reasons only
Count_ReasonsOnly(counts, d) ==
    IF d.included
    THEN [counts EXCEPT !.inclusion = @ + 1]
    ELSE [counts EXCEPT !.by_criteria = CountReasons(@, d.reasons)]

\* lines 203-208
Count(counts, d) ==
    IF d.included
    THEN [counts EXCEPT !.inclusion = @ + 1]
    ELSE [counts EXCEPT !.exclusion = @ + 1,
                        !.by_criteria = CountReasons(@, d.reasons)]

\* one iteration of the selection loop, on publications[i + 1]
Select ==
    /\ pc = "select"
    /\ i < Len(publications)
    /\ LET pub == publications[i + 1]
       IN  IF Raises(pub)
           THEN /\ pc' = "error"
                /\ UNCHANGED loop_vars
           ELSE \E d \in {Decide(pub)} :
                    /\ in_date_range' = d.in_date_range
                    /\ has_inclusion' = d.has_inclusion
                    /\ included' = d.included
                    /\ reasons' = d.reasons
                    /\ results' = Append(results, Row(pub, d))
                    /\ criteria_counts' = Count(criteria_counts, d)
                    /\ i' = i + 1
                    /\ pc' = "select"
    /\ UNCHANGED <<input_data, config_vars, publications, total_duplicates,
                   total_records, call_vars, get_vars>>

\* the end of the loop: total_records and the reporting calls
Report ==
    /\ pc = "select"
    /\ i = Len(publications)
    /\ total_records' = Len(publications)
    /\ pc' = "done"
    /\ UNCHANGED <<input_data, config_vars, publications, total_duplicates,
                   loop_vars, call_vars, get_vars>>

Next ==
    \/ Configure
    \/ SearchDatabases
    \/ RemoveDuplicates
    \/ Select
    \/ Report

Spec == Init /\ [][Next]_vars

(***************************************************************************)
(* Runs of search_prisma on records that lack an attribute or carry a Year *)
(* that is no integer                                                      *)
(***************************************************************************)

\* a record without Journal
PubNoJournal ==
    [Title |-> "No Journal", Source |-> "CrossRef", Authors |-> "Kim",
     Year |-> YearInt(2022), Language |-> "English", Type |-> "journal-article"]
\* a record without Source and Language
PubNoSourceKey ==
    [Title |-> "No Source", Authors |-> "Park", Year |-> YearInt(2021),
     Journal |-> "Nature", Type |-> "journal article"]
\* a record whose Year is a text that is no integer, passed on as received
PubYearText ==
    [Title |-> "Year Text", Source |-> "CORE", Authors |-> "Diaz",
     Year |-> YearStr("n.d."), Journal |-> "Some Journal",
     Language |-> "English", Type |-> "journal-article"]
\* a record without Year
PubNoYearKey ==
    [Title |-> "No Year", Source |-> "MED", Authors |-> "Chen",
     Journal |-> "Nature Medicine", Language |-> "English",
     Type |-> "journal-article"]

IncompletePubs ==
    {PubMedicine, PubNoType, PubNoJournal, PubNoSourceKey,
     PubNoYear, PubNullYear, PubYearText, PubNoYearKey}

IncompleteConfigs ==
    [date_range : {"2020-2025"},
     inclusion_criteria : {<<>>, <<"type:journal">>},
     exclusion_criteria : {<<"type:proceedings">>, <<"conference">>,
                           <<"conference", "journal:VLDB">>}]

InitIncomplete ==
    /\ pc = "start"
    /\ input_data \in IncompleteConfigs
    /\ Unassigned
    /\ call = NoCall
    /\ ret = NoReturn
    /\ NoRequest

\* the searches of all databases, returning records of IncompletePubs
SearchIncomplete ==
    /\ pc = "search"
    /\ \E found \in SeqsUpTo(IncompletePubs, MaxPubs) : publications' = found
    /\ pc' = "dedupe"
    /\ UNCHANGED <<input_data, config_vars, total_duplicates, loop_vars,
                   total_records, call_vars, get_vars>>

NextIncomplete ==
    \/ Configure
    \/ SearchIncomplete
    \/ RemoveDuplicates
    \/ Select
    \/ Report

SpecIncomplete == InitIncomplete /\ [][NextIncomplete]_vars

(***************************************************************************)
(* Calls of the functions of criteria_mapper.py, one call per behaviour    *)
(***************************************************************************)

\* Source values: the tags the adapters write, in several letter cases, and
\* tags no adapter writes
SourceTags ==
    {"MED", "med", "Med", "PMC", "pmc", "PMCID", "pmcid", "PmcId",
     "PubMed", "pubmed", "PUBMED",
     "CrossRef", "crossref", "CROSSREF", "arXiv", "arxiv", "ARXIV",
     "CORE", "core", "Core",
     "SemanticScholar", "semanticscholar", "SEMANTICSCHOLAR",
     "IEEE", "ieee", "Ieee", "Springer", "springer", "SPRINGER",
     "DBLP", "dblp", "Dblp", "Scopus", "scopus", "SCOPUS",
     "unknownTag", "", " MED", "med ", "europepmc", "cross ref"}

\* db_name arguments: the known names and names that are in no table
DbArgs == DatabaseNames \cup {"UnknownDB", "pubmed", ""}

\* criteria_field arguments: every key of a table, keys in other letter cases
\* and strings that are in no table
FieldArgs ==
    {"type", "publication_type", "pubtype", "document_type", "content_type",
     "aggregation_type", "language", "source", "journal", "venue",
     "publication_title", "publication_name", "authors",
     "Type", "LANGUAGE", "Venue", "Journal",
     "bogus_field", "", "year", "title", " type"}

\* raw criteria strings of a configuration file
RawCriteria ==
    {"journal article", "type:journal article", " Review ", "Language : English",
     "source:a:b", ":x", "x:", ":", "", "  ", "TYPE: Journal ", "venue:ICML"}

\* the longest criteria list passed in a call
MaxCriteria == 2

\* criteria strings used against the records of PubArgs
MatchCriteria ==
    {"journal", "type:JOURNAL", "language:english", "journal:nature",
     "venue:icml", " Review ", "source:Crossref", "conference", "",
     "  ", "language:"}

\* criteria that name a database-specific field, each with the criterion that
\* names the common field for the same value, checked one at a time
FieldCriteria ==
    {"venue:icml", "journal:icml", "venue:vldb", "journal:vldb",
     "venue:article", "journal:article", "Venue: ICML ",
     "document_type:research", "type:research",
     "document_type:journal", "type:journal", "language:none"}

PubTest ==
    [Title |-> "Test Paper", Source |-> "CrossRef", Type |-> "Journal-Article",
     Language |-> "ENGLISH", Journal |-> "Nature"]

\* a record without Source and without Language
PubNoSource ==
    [Title |-> "No Source", Type |-> "journal article", Journal |-> "Nature"]

PubArgs == PubSet \cup {PubNoType, PubTest, PubNoSource}

Calls ==
    {[fn |-> "get_database_name_from_source", source |-> src] : src \in SourceTags}
    \cup
    {[fn |-> "get_mapped_field_for_criteria", db_name |-> db, criteria_field |-> f] :
        db \in DbArgs, f \in FieldArgs}
    \cup
    {[fn |-> "parse_criteria_with_fields", criteria_list |-> cs] :
        cs \in SeqsUpTo(RawCriteria, MaxCriteria)}
    \cup
    {[fn |-> "check_criteria_match", publication |-> p, criteria_list |-> cs] :
        p \in PubArgs, cs \in SeqsUpTo(MatchCriteria, MaxCriteria)}
    \cup
    {[fn |-> "check_criteria_match", publication |-> p, criteria_list |-> <<c>>] :
        p \in PubArgs, c \in FieldCriteria}
    \cup
    {[fn |-> "get_criteria_mismatch_reasons", publication |-> p, criteria_list |-> cs,
      criteria_type |-> label] :
        p \in PubArgs, cs \in SeqsUpTo(MatchCriteria, MaxCriteria),
        label \in {"inclusion", "exclusion"}}
    \cup
    {[fn |-> "get_criteria_mismatch_reasons", publication |-> p,
      criteria_list |-> <<c>>, criteria_type |-> label] :
        p \in PubArgs, c \in FieldCriteria, label \in {"inclusion", "exclusion"}}

NoConfig == [date_range |-> "", inclusion_criteria |-> <<>>, exclusion_criteria |-> <<>>]

InitCall ==
    /\ pc = "call"
    /\ input_data = NoConfig
    /\ Unassigned
    /\ call \in Calls
    /\ ret = NoReturn
    /\ NoRequest

Return(value) ==
    /\ ~ret.done
    /\ ret' = [done |-> TRUE, val |-> value]
    /\ UNCHANGED <<pc, input_data, config_vars, publications, total_duplicates,
                   loop_vars, total_records, call, get_vars>>

CallGetDatabaseName ==
    /\ call.fn = "get_database_name_from_source"
    /\ Return(get_database_name_from_source(call.source))

CallGetMappedField ==
    /\ call.fn = "get_mapped_field_for_criteria"
    /\ Return(get_mapped_field_for_criteria(call.db_name, call.criteria_field))

CallParseCriteria ==
    /\ call.fn = "parse_criteria_with_fields"
    /\ Return(parse_criteria_with_fields(call.criteria_list))

CallCheckCriteriaMatch ==
    /\ call.fn = "check_criteria_match"
    /\ Return(check_criteria_match(call.publication, call.criteria_list))

CallGetMismatchReasons ==
    /\ call.fn = "get_criteria_mismatch_reasons"
    /\ Return(get_criteria_mismatch_reasons(call.publication, call.criteria_list,
                                            call.criteria_type))

NextCall ==
    \/ CallGetDatabaseName
    \/ CallGetMappedField
    \/ CallParseCriteria
    \/ CallCheckCriteriaMatch
    \/ CallGetMismatchReasons

SpecMapper == InitCall /\ [][NextCall]_vars

(***************************************************************************)
(* keywords.py                                                             *)
(***************************************************************************)

STOPWORDS ==
    {"the", "and", "for", "with", "that", "from", "this", "have", "are", "was",
     "were", "has", "had", "but", "not", "all", "can", "will", "into", "out",
     "over", "under", "more", "than", "such", "their", "they", "them", "been",
     "also", "which", "when", "where", "who", "what", "how", "why", "your",
     "about", "after", "before", "between", "each", "other", "some", "any",
     "our", "his", "her", "its", "on", "in", "of", "to", "by", "as", "at", "an",
     "or", "is", "a", "be", "it"}

\* the ASCII characters the pattern \w matches
WordChars ==
    DOMAIN UpperToLower \cup {UpperToLower[c] : c \in DOMAIN UpperToLower}
    \cup DOMAIN DigitValue \cup {"_"}

RECURSIVE FindWords(_, _)
\* re.findall(r'\b\w+\b', s): the maximal runs of word characters of s, in
\* order; word is the run that ends before s
FindWords(s, word) ==
    IF Len(s) = 0
    THEN (IF Len(word) = 0 THEN <<>> ELSE <<word>>)
    ELSE IF Head(s) \in WordChars
         THEN FindWords(Tail(s), word \o Head(s))
         ELSE (IF Len(word) = 0 THEN <<>> ELSE <<word>>) \o FindWords(Tail(s), "")

\* variant: a word of three characters is kept
get_keywords_KeepsThree(research_topic) ==
    LET words == FindWords(Lower(research_topic), "")
    IN  {words[k] : k \in {j \in 1..Len(words) :
                              words[j] \notin STOPWORDS /\ Len(words[j]) >= 3}}

\* set(keywords) of get_keywords: list() writes it out in an order that the
\* hashing of str decides
get_keywords(research_topic) ==
    LET words == FindWords(Lower(research_topic), "")
    IN  {words[k] : k \in {j \in 1..Len(words) :
                              words[j] \notin STOPWORDS /\ Len(words[j]) > 3}}

\* the lists that hold every member of the set S once
ListsOf(S) ==
    {q \in [1..Cardinality(S) -> S] : \A m, n \in DOMAIN q : m # n => q[m] # q[n]}

(***************************************************************************)
(* Calls of the pure functions of cli.py and keywords.py, one call per     *)
(* behaviour                                                               *)
(***************************************************************************)

\* research topics: the topics of the tests, an empty topic, punctuation,
\* repeated words in several letter cases, digits and underscores
Topics ==
    {"Machine learning for healthcare applications",
     "The use of AI in the healthcare industry",
     "", "   ", "AI", "the and for", "Deep learning, DEEP Learning; deep",
     "covid-19 data_set 2024", "e-mail x-ray", "Their theirs", "With-out",
     "gene", "DNA", "cell cells"}

\* records whose titles and authors are equal, equal up to letter case, or
\* the same names in another order
DupFirst == [Title |-> "Deep Learning", Authors |-> "A, B", Source |-> "MED"]
DupTitleCase == [Title |-> "DEEP learning", Authors |-> "A, B", Source |-> "CrossRef"]
DupAuthorOrder == [Title |-> "Deep Learning", Authors |-> "B, A", Source |-> "arXiv"]
DupAuthorCase == [Title |-> "Deep Learning", Authors |-> "a, b", Source |-> "CORE"]
DupOther == [Title |-> "Other", Authors |-> "A, B", Source |-> "DBLP"]

DupArgs == {DupFirst, DupTitleCase, DupAuthorOrder, DupAuthorCase, DupOther}

\* the longest list passed to remove_duplicates
MaxFetched == 3

\* date_range arguments: one year, two years, blanks around them, and strings
\* int() does not convert
DateArgs ==
    DateRanges \cup
    {"2020", "2015-2025", " 2020 - 2023 ", "1_0", "2020--5",
     "", "-", "2020-", "-2020", "20x0", "2020-2025-2030", "2020 2025",
     "2020/2025", "x-2020", "2020-x", "2020.5", "20__20"}

\* date_range values of configuration files: those of DateArgs, ranges whose
\* start is after their end, equal years and years outside 1000..9999
ConfigDates ==
    DateArgs \cup
    {"2025-2015", "9999-1000", "10-9", " 2021 - 2020 ", "2020-2020", "999",
     "10000", "1000", "9999", "0-0", "2015-2025\n", "2021\n"}

\* configurations whose fields other than date_range are valid
ConfigArgs ==
    [date_range : ConfigDates,
     inclusion_criteria : {<<>>, <<"journal">>},
     exclusion_criteria : {<<"review">>}]

CliCalls ==
    {[fn |-> "remove_duplicates", publications |-> ps] :
        ps \in SeqsUpTo(DupArgs, MaxFetched)}
    \cup
    {[fn |-> "parse_date_range", date_range |-> dr] : dr \in DateArgs}
    \cup
    {[fn |-> "get_keywords", research_topic |-> t] : t \in Topics}
    \cup
    {[fn |-> "load_config", input_data |-> c] : c \in ConfigArgs}
    \cup
    {[fn |-> "validate_date_range", date_range |-> dr] : dr \in ConfigDates}

InitCli ==
    /\ pc = "call"
    /\ input_data = NoConfig
    /\ Unassigned
    /\ call \in CliCalls
    /\ ret = NoReturn
    /\ NoRequest

CallRemoveDuplicates ==
    /\ call.fn = "remove_duplicates"
    /\ Return(remove_duplicates(call.publications))

CallParseDateRange ==
    /\ call.fn = "parse_date_range"
    /\ Return(parse_date_range(call.date_range))

CallGetKeywords ==
    /\ call.fn = "get_keywords"
    /\ \E keywords \in ListsOf(get_keywords(call.research_topic)) : Return(keywords)

\* load_config returns the configuration it was given, or exits
CallLoadConfig ==
    /\ call.fn = "load_config"
    /\ Return(IF load_config(call.input_data)
              THEN [ok |-> TRUE, config |-> call.input_data]
              ELSE [ok |-> FALSE, raised |-> "SystemExit"])

\* _validate_date_range returns None, or raises ValueError
CallValidateDateRange ==
    /\ call.fn = "validate_date_range"
    /\ Return(IF validate_date_range(call.date_range)
              THEN [ok |-> TRUE]
              ELSE [ok |-> FALSE, raised |-> "ValueError"])

NextCli ==
    \/ CallRemoveDuplicates
    \/ CallParseDateRange
    \/ CallGetKeywords
    \/ CallLoadConfig
    \/ CallValidateDateRange

SpecCli == InitCli /\ [][NextCli]_vars

(***************************************************************************)
(* utils.robust_get: one call, one action per pass of its retry loop       *)
(***************************************************************************)

\* the largest max_retries of a call
MaxRetries == 3

\* what one requests.get call can end with: a response with a status code,
\* or an exception
Outcomes ==
    {[status_code |-> 200], [status_code |-> 404], [status_code |-> 500],
     [exception |-> "ConnectionError"], [exception |-> "Timeout"]}

None == [none |-> TRUE]

\* variant: range(max_retries + 1)
range_Inclusive(n) == 0..n

\* range(n)
range(n) == 0..(n - 1)

\* the outcome is a response whose status_code is 200
IsOk(outcome) == "status_code" \in DOMAIN outcome /\ outcome.status_code = 200

InitGet ==
    /\ pc = "attempt"
    /\ input_data = NoConfig
    /\ Unassigned
    /\ call \in {[fn |-> "robust_get", max_retries |-> n] : n \in 0..MaxRetries}
    /\ ret = NoReturn
    /\ NoRequest

\* one pass of the for loop: the request, then the return of its response or
\* the wait of 2 ** attempt seconds
Attempt ==
    /\ pc = "attempt"
    /\ attempt \in range(call.max_retries)
    /\ \E outcome \in Outcomes :
          /\ sent' = Append(sent, outcome)
          /\ IF IsOk(outcome)
             THEN /\ ret' = [done |-> TRUE, val |-> outcome]
                  /\ pc' = "returned"
                  /\ UNCHANGED <<attempt, slept>>
             ELSE /\ slept' = Append(slept, 2 ^ attempt)
                  /\ attempt' = attempt + 1
                  /\ UNCHANGED <<pc, ret>>
    /\ UNCHANGED <<input_data, config_vars, publications, total_duplicates,
                   loop_vars, total_records, call>>

\* the end of the for loop: return None
GiveUp ==
    /\ pc = "attempt"
    /\ attempt \notin range(call.max_retries)
    /\ ret' = [done |-> TRUE, val |-> None]
    /\ pc' = "returned"
    /\ UNCHANGED <<input_data, config_vars, publications, total_duplicates,
                   loop_vars, total_records, call, get_vars>>

NextGet ==
    \/ Attempt
    \/ GiveUp

\* the interpreter goes on with the loop as long as it has a step to take
SpecGet == InitGet /\ [][NextGet]_vars /\ WF_vars(NextGet)

(***************************************************************************)
(* Claims.  The statements below are written from the claims' words: a     *)
(* criterion is read by splitting the raw string itself, a reason by its   *)
(* text.                                                                   *)
(***************************************************************************)

\* the field a raw criterion string names: left of its first ':', else 'type'
ClaimField(raw) ==
    IF Find(raw, ":") > 0
    THEN Lower(Strip(SubSeq(raw, 1, Find(raw, ":") - 1)))
    ELSE "type"

\* the value a raw criterion string asks for: right of its first ':', else all of it
ClaimValue(raw) ==
    IF Find(raw, ":") > 0
    THEN Lower(Strip(SubSeq(raw, Find(raw, ":") + 1, Len(raw))))
    ELSE Lower(Strip(raw))

\* the lower-cased attribute of r a criterion with this field is checked on
ClaimAttribute(r, field) ==
    Lower(Get(r, get_mapped_field_for_criteria(
                     get_database_name_from_source(Get(r, "Source")), field)))

\* the raw criterion is met by r
ClaimMeets(r, raw) == Contains(ClaimValue(raw), ClaimAttribute(r, ClaimField(raw)))

StartsWith(s, prefix) == Len(s) >= Len(prefix) /\ SubSeq(s, 1, Len(prefix)) = prefix

InSeq(e, q) == \E k \in 1..Len(q) : q[k] = e

\* the selection loop has processed a record: it is publications[i], its row results[i]
Processed == i >= 1

LastPub == publications[i]

LastRow == results[i]

\* the record's Year is an integer inside the date window
YearInWindow(r) ==
    /\ r["Year"].t = "int"
    /\ start_year <= r["Year"].n
    /\ r["Year"].n <= end_year

\* C1 as stated: Included is 'Yes' exactly when the Year is present and inside
\* the window, the inclusion check passes and the exclusion check fails
C1_Original ==
    Processed =>
        /\ LastRow.Included \in {"Yes", "No"}
        /\ LastRow.Included = "Yes" <=>
              /\ YearInWindow(LastPub)
              /\ check_criteria_match(LastPub, inclusion_criteria)
              /\ ~check_criteria_match(LastPub, exclusion_criteria)

\* C1 amended: Included is 'Yes' exactly when the Year is present, not zero and
\* inside the window, the inclusion check passes and the exclusion check fails;
\* in every other case it is 'No'
C1_IncludedIff ==
    Processed =>
        /\ LastRow.Included \in {"Yes", "No"}
        /\ LastRow.Included = "Yes" <=>
              /\ YearInWindow(LastPub)
              /\ LastPub["Year"].n # 0
              /\ check_criteria_match(LastPub, inclusion_criteria)
              /\ ~check_criteria_match(LastPub, exclusion_criteria)

\* C1 witness: a record was included and the record after it was not
C1_Witness ==
    /\ i >= 2
    /\ results[i - 1].Included = "Yes"
    /\ results[i].Included = "No"

\* C2 as stated: with an empty exclusion list, every record inside the date
\* window that passes the inclusion check gets Included = 'Yes'
C2_EmptyExclusionNeverExcludes ==
    (/\ Processed
     /\ exclusion_criteria = <<>>
     /\ YearInWindow(LastPub)
     /\ LastPub["Year"].n # 0
     /\ check_criteria_match(LastPub, inclusion_criteria))
    => LastRow.Included = "Yes"

\* the 'Has exclusion' reason C5 expects for one raw exclusion criterion
C5_ExpectedReason(r, raw) ==
    IF Find(raw, ":") > 0
    THEN IF ClaimMeets(r, raw)
         THEN IF ClaimField(raw) = "type"
              THEN <<"Has exclusion type: " \o ClaimValue(raw)>>
              ELSE <<"Has exclusion " \o ClaimField(raw) \o ": " \o ClaimValue(raw)>>
         ELSE <<>>
    ELSE IF Contains(ClaimValue(raw), Lower(Get(r, "Type")))
         THEN <<"Has exclusion: " \o ClaimValue(raw)>>
         ELSE <<>>

RECURSIVE C5_ExpectedReasons(_, _)
C5_ExpectedReasons(r, raws) ==
    IF Len(raws) = 0 THEN <<>>
    ELSE C5_ExpectedReason(r, Head(raws)) \o C5_ExpectedReasons(r, Tail(raws))

IsHasExclusion(reason) == StartsWith(reason, "Has exclusion")

\* C5 as stated: a record that matches a non-empty exclusion list carries one
\* 'Has exclusion' reason per exclusion criterion whose value is a substring of
\* the record's field, none for the others, and so at least one
C5_HasExclusionReasons ==
    (/\ Processed
     /\ exclusion_criteria # <<>>
     /\ check_criteria_match(LastPub, exclusion_criteria))
    => /\ SelectSeq(reasons, IsHasExclusion)
            = C5_ExpectedReasons(LastPub, exclusion_criteria)
       /\ \E k \in 1..Len(reasons) : IsHasExclusion(reasons[k])

\* the Year is absent: the empty sentinel, or None
YearAbsent(r) == r["Year"] = YearStr("") \/ r["Year"] = YearNone

\* C6: a record whose Year is absent gets Included = 'No' and the reason
\* 'Published outside {date_range}', whatever the criteria
C6_AbsentYearOutside ==
    (Processed /\ YearAbsent(LastPub)) =>
        /\ LastRow.Included = "No"
        /\ ~included
        /\ InSeq("Published outside " \o date_range, reasons)
        /\ Contains("Published outside " \o date_range, LastRow.Reasons)

\* C6 witness: a record without a Year that passes the inclusion check and
\* matches no exclusion criterion has been processed
C6_Witness ==
    /\ Processed
    /\ LastPub["Year"] = YearStr("")
    /\ inclusion_criteria # <<>>
    /\ check_criteria_match(LastPub, inclusion_criteria)
    /\ ~check_criteria_match(LastPub, exclusion_criteria)
    /\ LastRow.Included = "No"

\* the call of fn has returned
Returned(fn) == call.fn = fn /\ ret.done

\* r with every attribute lower-cased
LowerPub(r) == [a \in DOMAIN r |-> IF a = "Year" THEN r[a] ELSE Lower(r[a])]

UpperChar(c) ==
    IF \E u \in DOMAIN UpperToLower : UpperToLower[u] = c
    THEN CHOOSE u \in DOMAIN UpperToLower : UpperToLower[u] = c
    ELSE c

RECURSIVE Upper(_)
Upper(s) == IF Len(s) = 0 THEN "" ELSE UpperChar(Head(s)) \o Upper(Tail(s))

\* r with every attribute upper-cased
UpperPub(r) == [a \in DOMAIN r |-> IF a = "Year" THEN r[a] ELSE Upper(r[a])]

UpperAll(criteria_list) == [k \in 1..Len(criteria_list) |-> Upper(criteria_list[k])]

\* C3: for a non-empty list, check_criteria_match is true exactly when some
\* criterion's trimmed lower-cased value is a substring of the lower-cased
\* attribute mapped for its field under the record's database, and the result
\* is the same for the upper-cased and the lower-cased record and criteria
C3_MatchIffSomeCriterionContained ==
    (Returned("check_criteria_match") /\ Len(call.criteria_list) > 0) =>
        /\ ret.val = (\E k \in 1..Len(call.criteria_list) :
                         ClaimMeets(call.publication, call.criteria_list[k]))
        /\ ret.val = check_criteria_match(LowerPub(call.publication),
                                          LowerAll(call.criteria_list))
        /\ ret.val = check_criteria_match(UpperPub(call.publication),
                                          UpperAll(call.criteria_list))

\* C3 witness: a list whose first criterion fails and whose second is contained
\* in, but not equal to, an attribute written in another letter case
C3_Witness ==
    /\ Returned("check_criteria_match")
    /\ call.publication = PubTest
    /\ call.criteria_list = <<"conference", "type:JOURNAL">>
    /\ ret.val = TRUE

\* C4: with an empty criteria list check_criteria_match is true and
\* get_criteria_mismatch_reasons is the empty list, for every record and label
C4_EmptyCriteria ==
    /\ (Returned("check_criteria_match") /\ call.criteria_list = <<>>)
          => ret.val = TRUE
    /\ (Returned("get_criteria_mismatch_reasons") /\ call.criteria_list = <<>>)
          => ret.val = <<>>

\* C4 witness: get_criteria_mismatch_reasons has returned for an empty list, the
\* label 'exclusion' and a record that lacks an attribute
C4_Witness ==
    /\ Returned("get_criteria_mismatch_reasons")
    /\ call.criteria_list = <<>>
    /\ call.criteria_type = "exclusion"
    /\ call.publication = PubNoType

\* the reason C7 expects for one raw criterion: none when it is met
C7_ExpectedReason(r, raw, label) ==
    IF ClaimMeets(r, raw) THEN <<>>
    ELSE IF ClaimField(raw) = "type"
         THEN <<"Missing " \o label \o ": " \o ClaimValue(raw)>>
         ELSE <<"Missing " \o label \o " " \o ClaimField(raw) \o ": " \o ClaimValue(raw)>>

RECURSIVE C7_ExpectedReasons(_, _, _)
C7_ExpectedReasons(r, raws, label) ==
    IF Len(raws) = 0 THEN <<>>
    ELSE C7_ExpectedReason(r, Head(raws), label)
         \o C7_ExpectedReasons(r, Tail(raws), label)

\* C7: get_criteria_mismatch_reasons returns, in input order, one reason per
\* criterion that is not met and none for those met: 'Missing {label}: {value}'
\* for the field 'type', 'Missing {label} {field}: {value}' for another field
C7_MismatchReasons ==
    Returned("get_criteria_mismatch_reasons") =>
        ret.val = C7_ExpectedReasons(call.publication, call.criteria_list,
                                     call.criteria_type)

\* C7 witness: a reason in the field format followed by one in the legacy format
C7_Witness ==
    /\ Returned("get_criteria_mismatch_reasons")
    /\ call.publication = PubTest
    /\ ret.val = <<"Missing inclusion venue: icml", "Missing inclusion: conference">>

\* C8: parse_criteria_with_fields keeps length and order and splits each raw
\* string on its first ':' only, trimming and lower-casing both parts; without
\* ':' the field is 'type' and the value the trimmed lower-cased string
C8_ParseCriteria ==
    Returned("parse_criteria_with_fields") =>
        /\ Len(ret.val) = Len(call.criteria_list)
        /\ \A k \in 1..Len(call.criteria_list) :
              /\ ret.val[k].field = ClaimField(call.criteria_list[k])
              /\ ret.val[k].value = ClaimValue(call.criteria_list[k])

\* C8 witness: a value that itself contains ':' after a padded bare criterion
C8_Witness ==
    /\ Returned("parse_criteria_with_fields")
    /\ call.criteria_list = <<" Review ", "source:a:b">>
    /\ ret.val = <<[field |-> "type", value |-> "review"],
                   [field |-> "source", value |-> "a:b"]>>

\* C9: get_database_name_from_source returns a canonical name for every source:
\* PubMed for med, pmc and pmcid, each canonical name for itself, in any letter
\* case, and PubMed for every other string
C9_DatabaseName ==
    Returned("get_database_name_from_source") =>
        /\ ret.val \in DatabaseNames
        /\ Lower(call.source) \in {"med", "pmc", "pmcid"} => ret.val = "PubMed"
        /\ \A name \in DatabaseNames :
              Lower(call.source) = Lower(name) => ret.val = name
        /\ (/\ Lower(call.source) \notin {"med", "pmc", "pmcid"}
            /\ \A name \in DatabaseNames : Lower(call.source) # Lower(name))
           => ret.val = "PubMed"

\* C9 witness: a canonical name written in upper case has been mapped to itself
C9_Witness ==
    /\ Returned("get_database_name_from_source")
    /\ call.source = "SEMANTICSCHOLAR"
    /\ ret.val = "SemanticScholar"

RecordAttributes == {"Type", "Language", "Source", "Journal", "Authors"}

\* C10: get_mapped_field_for_criteria returns a record attribute, 'Type' for
\* an unknown database or a field that is not in the database's table, and
\* 'Type' for the field 'type' in every table
C10_MappedField ==
    /\ Returned("get_mapped_field_for_criteria") =>
          /\ ret.val \in RecordAttributes
          /\ call.db_name \notin DatabaseNames => ret.val = "Type"
          /\ (/\ call.db_name \in DatabaseNames
              /\ \A e \in DATABASE_FIELD_MAPPINGS[call.db_name] :
                    e[1] # Lower(call.criteria_field))
             => ret.val = "Type"
          /\ Lower(call.criteria_field) = "type" => ret.val = "Type"
    /\ \A db \in DatabaseNames : <<"type", "Type">> \in DATABASE_FIELD_MAPPINGS[db]

\* C10 witness: a field that the tables know was asked of an unknown database
C10_Witness ==
    /\ Returned("get_mapped_field_for_criteria")
    /\ call.db_name = "UnknownDB"
    /\ call.criteria_field = "language"
    /\ ret.val = "Type"

\* the database the claim assigns to r: its Source, letter case ignored
ClaimDatabase(r) == Lower(Get(r, "Source"))

\* the value of a one-criterion call is found in the lower-cased attribute of
\* the record
FoundIn(attribute) ==
    Contains(ClaimValue(call.criteria_list[1]),
             Lower(Get(call.publication, attribute)))

\* C11: a database-specific field name is resolved by the record's own
\* database: 'venue:v' on a SemanticScholar or DBLP record is matched on
\* Journal and agrees with 'journal:v'; 'document_type:v' on a CORE record is
\* matched on Type and agrees with 'type:v'; a field the record's table does
\* not have ('venue' on CrossRef) is matched on Type
C11_DatabaseSpecificField ==
    (Returned("check_criteria_match") /\ Len(call.criteria_list) = 1) =>
        \E field \in {ClaimField(call.criteria_list[1])},
           v \in {ClaimValue(call.criteria_list[1])},
           db \in {ClaimDatabase(call.publication)} :
            /\ (field = "venue" /\ db \in {"semanticscholar", "dblp"}) =>
                  /\ ret.val = FoundIn("Journal")
                  /\ ret.val = check_criteria_match(call.publication,
                                                    <<"journal:" \o v>>)
            /\ (field = "document_type" /\ db = "core") =>
                  /\ ret.val = FoundIn("Type")
                  /\ ret.val = check_criteria_match(call.publication,
                                                    <<"type:" \o v>>)
            /\ (field = "venue" /\ db \notin {"semanticscholar", "dblp"}) =>
                  ret.val = FoundIn("Type")
            /\ (field = "document_type" /\ db # "core") =>
                  ret.val = FoundIn("Type")

\* C11 witness: 'venue:icml' matched the Journal of a SemanticScholar record
\* whose Type does not hold the value
C11_Witness ==
    /\ Returned("check_criteria_match")
    /\ call.criteria_list = <<"venue:icml">>
    /\ call.publication = PubNullYear
    /\ ret.val
    /\ ~FoundIn("Type")

\* the criterion 'v' written with its field: 'type:v'; a criterion that has a
\* ':' is left as it is
Qualify(raw) == IF Find(raw, ":") = 0 THEN "type:" \o raw ELSE raw

\* the list with its k-th criterion qualified
QualifyAt(criteria_list, k) == [criteria_list EXCEPT ![k] = Qualify(@)]

\* the list with every criterion qualified
QualifyAll(criteria_list) ==
    [k \in 1..Len(criteria_list) |-> Qualify(criteria_list[k])]

\* C12: writing a criterion 'v' that has no ':' as 'type:v', in the inclusion
\* list or in the exclusion list, one criterion or all of them, leaves the
\* Included value of every record unchanged
C12_BareIsTypeCriterion ==
    (pc = "select" /\ Processed) =>
        \E yes \in {LastRow.Included = "Yes"} :
            /\ yes = IncludedWith(LastPub, inclusion_criteria, exclusion_criteria)
            /\ \A k \in 1..Len(inclusion_criteria) :
                  yes = IncludedWith(LastPub, QualifyAt(inclusion_criteria, k),
                                     exclusion_criteria)
            /\ \A k \in 1..Len(exclusion_criteria) :
                  yes = IncludedWith(LastPub, inclusion_criteria,
                                     QualifyAt(exclusion_criteria, k))
            /\ yes = IncludedWith(LastPub, QualifyAll(inclusion_criteria),
                                  QualifyAll(exclusion_criteria))

\* C12 witness: a record was excluded by a padded criterion without ':' that
\* the qualified list spells differently
C12_Witness ==
    /\ pc = "select"
    /\ Processed
    /\ exclusion_criteria = <<"review ", "journal:old">>
    /\ QualifyAt(exclusion_criteria, 1) = <<"type:review ", "journal:old">>
    /\ LastPub = PubNoYear
    /\ inclusion_criteria = <<"journal", "review">>
    /\ QualifyAll(inclusion_criteria) = <<"type:journal", "type:review">>
    /\ LastRow.Included = "No"
    /\ check_criteria_match(LastPub, exclusion_criteria)

\* the identity key of the claims: lower-cased Title and the Authors string
ClaimKey(r) == <<Lower(r["Title"]), r["Authors"]>>

\* the positions of xs that hold the first occurrence of their key
FirstOccurrences(xs) ==
    {k \in 1..Len(xs) : \A j \in 1..(k - 1) : ClaimKey(xs[j]) # ClaimKey(xs[k])}

\* the n-th smallest member of a set of positions
NthOf(positions, n) ==
    CHOOSE k \in positions : Cardinality({j \in positions : j <= k}) = n

\* C13: remove_duplicates returns the first occurrence of every key and
\* nothing else, in the order of the input; the count is the number of
\* dropped records, len(input) - len(unique); no two returned records share a
\* key
C13_FirstOccurrencesKept ==
    Returned("remove_duplicates") =>
        \E xs \in {call.publications}, unique \in {ret.val.unique} :
            /\ Len(unique) = Cardinality(FirstOccurrences(xs))
            /\ \A n \in 1..Len(unique) : unique[n] = xs[NthOf(FirstOccurrences(xs), n)]
            /\ ret.val.duplicates = Len(xs) - Len(unique)
            /\ \A m, n \in 1..Len(unique) :
                  m # n => ClaimKey(unique[m]) # ClaimKey(unique[n])

\* C13 witness: the third record repeated the key of the first in another
\* letter case and was dropped
C13_Witness ==
    /\ Returned("remove_duplicates")
    /\ call.publications = <<DupFirst, DupOther, DupTitleCase>>
    /\ ret.val = [unique |-> <<DupFirst, DupOther>>, duplicates |-> 1]

\* C14: remove_duplicates applied to its own unique list returns that list
\* and the count 0
C14_Idempotent ==
    Returned("remove_duplicates") =>
        remove_duplicates(ret.val.unique) = [unique |-> ret.val.unique, duplicates |-> 0]

\* C14 witness: the call dropped records, and its unique list is kept whole
\* by a second application
C14_Witness ==
    /\ Returned("remove_duplicates")
    /\ call.publications = <<DupFirst, DupTitleCase, DupFirst>>
    /\ ret.val = [unique |-> <<DupFirst>>, duplicates |-> 2]
    /\ remove_duplicates(ret.val.unique).unique = <<DupFirst>>

\* the two records of a call of remove_duplicates on a list of two
SameTitle == Lower(call.publications[1]["Title"]) = Lower(call.publications[2]["Title"])
SameAuthors == call.publications[1]["Authors"] = call.publications[2]["Authors"]

\* C15: the second of two records is dropped as a duplicate exactly when the
\* lower-cased Titles are equal and the Authors strings are equal character
\* for character: a title in another letter case collapses, authors in
\* another order or another letter case do not
C15_DuplicateIffSameKey ==
    (Returned("remove_duplicates") /\ Len(call.publications) = 2) =>
        /\ (ret.val.duplicates = 1) = (SameTitle /\ SameAuthors)
        /\ (ret.val.unique = <<call.publications[1]>>) = (SameTitle /\ SameAuthors)
        /\ (ret.val.unique = call.publications) = ~(SameTitle /\ SameAuthors)
        /\ call.publications = <<DupFirst, DupTitleCase>> => ret.val.unique = <<DupFirst>>
        /\ call.publications \in {<<DupFirst, DupAuthorOrder>>, <<DupFirst, DupAuthorCase>>}
              => ret.val.duplicates = 0

\* C15 witness: equal titles with the authors in another order were both kept
C15_Witness ==
    /\ Returned("remove_duplicates")
    /\ call.publications = <<DupFirst, DupAuthorOrder>>
    /\ SameTitle
    /\ ~SameAuthors
    /\ ret.val = [unique |-> <<DupFirst, DupAuthorOrder>>, duplicates |-> 0]

\* the number of positions of the sequence q that hold e
Occurrences(e, q) == Cardinality({n \in 1..Len(q) : q[n] = e})

RECURSIVE ExcludedReasons(_)
\* the reason lists of the excluded records among the first k of the run, one
\* after the other
ExcludedReasons(k) ==
    IF k = 0 THEN <<>>
    ELSE ExcludedReasons(k - 1)
         \o (IF results[k].Included = "No"
             THEN Decide(publications[k]).reasons ELSE <<>>)

\* C16: at the end of a run counts.inclusion is the number of rows with
\* Included 'Yes', counts.exclusion the number with 'No', and by_criteria
\* holds, for every reason, its number of occurrences in the reason lists of
\* the excluded records and nothing else
C16_CountsMatchRows ==
    pc = "done" =>
        /\ criteria_counts.inclusion =
              Cardinality({k \in 1..Len(results) : results[k].Included = "Yes"})
        /\ criteria_counts.exclusion =
              Cardinality({k \in 1..Len(results) : results[k].Included = "No"})
        /\ \E all \in {ExcludedReasons(Len(results))} :
              /\ DOMAIN criteria_counts.by_criteria = {all[n] : n \in 1..Len(all)}
              /\ \A n \in 1..Len(all) :
                    criteria_counts.by_criteria[all[n]] = Occurrences(all[n], all)

\* C16 witness: a run ended with two excluded records that share a reason,
\* which is counted twice
C16_Witness ==
    /\ pc = "done"
    /\ criteria_counts.exclusion = 2
    /\ \E s \in DOMAIN criteria_counts.by_criteria : criteria_counts.by_criteria[s] = 2

\* the name of the attribute of r the k-th criterion of the call is checked on
ClaimAttributeName(r, k) ==
    get_mapped_field_for_criteria(
        get_database_name_from_source(IF "Source" \in DOMAIN r THEN r["Source"] ELSE ""),
        ClaimField(call.criteria_list[k]))

\* the k-th criterion of the call asks for a non-empty value on an attribute
\* the record of the call does not have
OnAbsentAttribute(k) ==
    /\ ClaimAttributeName(call.publication, k) \notin DOMAIN call.publication
    /\ ClaimValue(call.criteria_list[k]) # ""

\* the reason text for the k-th criterion of the call
MissingText(k) ==
    IF ClaimField(call.criteria_list[k]) = "type"
    THEN "Missing " \o call.criteria_type \o ": " \o ClaimValue(call.criteria_list[k])
    ELSE "Missing " \o call.criteria_type \o " " \o ClaimField(call.criteria_list[k])
         \o ": " \o ClaimValue(call.criteria_list[k])

\* C17: on a record that lacks the attribute a criterion is checked on, or
\* lacks Source, both functions return: a criterion with a non-empty value on
\* an absent attribute does not match (the call returns FALSE when all its
\* criteria are such) and is reported missing
C17_AbsentAttributeIsEmpty ==
    /\ Returned("check_criteria_match") =>
          /\ ret.val \in BOOLEAN
          /\ (/\ Len(call.criteria_list) > 0
              /\ \A k \in 1..Len(call.criteria_list) : OnAbsentAttribute(k))
             => ret.val = FALSE
    /\ Returned("get_criteria_mismatch_reasons") =>
          /\ Len(ret.val) <= Len(call.criteria_list)
          /\ \A k \in 1..Len(call.criteria_list) :
                OnAbsentAttribute(k) => InSeq(MissingText(k), ret.val)

\* C17 witness: a criterion on Language was checked on a record without
\* Language and did not match
C17_Witness ==
    /\ Returned("check_criteria_match")
    /\ call.publication = PubNoType
    /\ call.criteria_list = <<"language:none">>
    /\ OnAbsentAttribute(1)
    /\ ret.val = FALSE

\* the record whose loop iteration raised
FailedPub == publications[i + 1]

\* the attributes of a record that criteria evaluation reads
CriteriaAttributes == {"Type", "Language", "Journal", "Source"}

\* r has an integer Year or the sentinel of an unknown year
YearWellTyped(r) ==
    /\ "Year" \in DOMAIN r
    /\ r["Year"] \in {YearStr(""), YearNone} \/ r["Year"].t = "int"

\* C18: the selection loop does not fail on a record that lacks attributes
\* read by criteria evaluation (Type, Language, Journal, Source) and is
\* complete otherwise: a row is emitted for it and the loop goes on
C18_AbsentAttributeDoesNotFail ==
    pc = "error" =>
        ~(/\ {"Title", "Authors", "Year"} \subseteq DOMAIN FailedPub
          /\ YearWellTyped(FailedPub))

\* Year of r is missing (no key, '' or None) or is no integer
YearMissingOrUnparseable(r) ==
    \/ "Year" \notin DOMAIN r
    \/ r["Year"].t # "int"

\* C19: a record whose Year is missing or is no integer does not make the
\* selection loop fail: its row has Included 'No' and the loop goes on
C19_BadYearDoesNotFail ==
    /\ (pc = "error" /\ {"Title", "Authors", "Journal", "Type"} \subseteq DOMAIN FailedPub)
          => ~YearMissingOrUnparseable(FailedPub)
    /\ (Processed /\ YearMissingOrUnparseable(LastPub)) => LastRow.Included = "No"

\* date range strings that are neither one integer nor two integers with a
\* hyphen between them
MalformedDates ==
    {"soon", "", "-", "2020-", "-2020", "20x0", "2020-2025-2030", "2020 2025",
     "2020/2025", "x-2020", "2020-x", "2020.5", "20__20"}

\* well-formed date range strings with their start and end years
WellFormedDates ==
    {<<"2020", 2020, 2020>>, <<"2021", 2021, 2021>>, <<"2015-2025", 2015, 2025>>,
     <<"2020-2025", 2020, 2025>>, <<"0-2025", 0, 2025>>, <<"2025-2020", 2025, 2020>>,
     <<" 2020 - 2023 ", 2020, 2023>>}

\* parse_date_range returns (start, end) for the well-formed strings
ReturnsWellFormed ==
    \A e \in WellFormedDates :
        call.date_range = e[1] => ret.val = [ok |-> TRUE, start |-> e[2], end |-> e[3]]

\* C20 as stated: for a malformed date range string parse_date_range returns
\* no pair and the conversion failure (ValueError) reaches the caller
\* uncaught; 'YYYY' gives (Y, Y) and 'A-B' gives (A, B)
C20_Original ==
    Returned("parse_date_range") =>
        /\ call.date_range \in MalformedDates =>
              (~ret.val.ok /\ ret.val.raised = "ValueError")
        /\ ReturnsWellFormed

\* C20: for a malformed date range string parse_date_range returns no pair:
\* it catches the conversion failure itself and leaves by sys.exit(1);
\* 'YYYY' gives (Y, Y) and 'A-B' gives (A, B); a string without a hyphen gives
\* equal years
C20_ParseDateRange ==
    Returned("parse_date_range") =>
        /\ call.date_range \in MalformedDates =>
              (~ret.val.ok /\ ret.val.raised = "SystemExit")
        /\ ~ret.val.ok => ret.val.raised = "SystemExit"
        /\ ReturnsWellFormed
        /\ (ret.val.ok /\ ~Contains("-", call.date_range)) =>
              ret.val.start = ret.val.end

\* C20 witness: the end year of a range was no integer and the call left by
\* sys.exit
C20_Witness ==
    /\ Returned("parse_date_range")
    /\ call.date_range = "2020-x"
    /\ ret.val = [ok |-> FALSE, raised |-> "SystemExit"]

\* the keywords of the topics, written out by hand
TopicKeywords ==
    {<<"Machine learning for healthcare applications",
       {"machine", "learning", "healthcare", "applications"}>>,
     <<"The use of AI in the healthcare industry", {"healthcare", "industry"}>>,
     <<"", {}>>, <<"   ", {}>>, <<"AI", {}>>, <<"the and for", {}>>,
     <<"Deep learning, DEEP Learning; deep", {"deep", "learning"}>>,
     <<"covid-19 data_set 2024", {"covid", "data_set", "2024"}>>,
     <<"e-mail x-ray", {"mail"}>>, <<"Their theirs", {"theirs"}>>,
     <<"With-out", {}>>, <<"gene", {"gene"}>>, <<"DNA", {}>>,
     <<"cell cells", {"cell", "cells"}>>}

\* the members of a list
Members(q) == {q[n] : n \in 1..Len(q)}

\* C21: get_keywords returns exactly the distinct lower-cased words of the
\* topic that are no stopwords and are longer than 3 characters, each once;
\* the result is empty for an empty topic
C21_Keywords ==
    Returned("get_keywords") =>
        /\ \A e \in TopicKeywords :
              call.research_topic = e[1] => Members(ret.val) = e[2]
        /\ \A m, n \in 1..Len(ret.val) : m # n => ret.val[m] # ret.val[n]
        /\ \A n \in 1..Len(ret.val) :
              /\ Len(ret.val[n]) > 3
              /\ ret.val[n] \notin STOPWORDS
              /\ Lower(ret.val[n]) = ret.val[n]
              /\ Contains(ret.val[n], Lower(call.research_topic))
        /\ call.research_topic = "" => ret.val = <<>>

\* C21 witness: the topic of the test with stopwords and short words
\* returned its two keywords
C21_Witness ==
    /\ Returned("get_keywords")
    /\ call.research_topic = "The use of AI in the healthcare industry"
    /\ ret.val = <<"industry", "healthcare">>

\* the requests sent so far, the last one left out, all failed
EarlierFailed == \A k \in 1..(Len(sent) - 1) : ~IsOk(sent[k])

\* what C22 says of every state of a call of robust_get
C22_Attempts ==
    /\ Len(sent) <= call.max_retries
    /\ EarlierFailed
    /\ pc \in {"attempt", "returned"}
    /\ (pc = "attempt") = ~ret.done
    /\ ret.done =>
          \/ /\ ret.val = None
             /\ Len(sent) = call.max_retries
             /\ \A k \in 1..Len(sent) : ~IsOk(sent[k])
          \/ /\ Len(sent) >= 1
             /\ IsOk(sent[Len(sent)])
             /\ ret.val = sent[Len(sent)]

\* C22: robust_get makes at most max_retries requests, one after another; it
\* returns the response of the first request that ends with status 200 and
\* makes no request after it; when all max_retries requests fail (another
\* status or an exception) it returns None; it raises nothing and every call
\* returns
C22_RobustGet == []C22_Attempts /\ <>ret.done

\* C22 witness: two requests failed, one by an exception, and the response of
\* the third was returned
C22_Witness ==
    /\ call.fn = "robust_get"
    /\ call.max_retries = 3
    /\ sent = <<[exception |-> "Timeout"], [status_code |-> 500], [status_code |-> 200]>>
    /\ slept = <<1, 2>>
    /\ ret = [done |-> TRUE, val |-> [status_code |-> 200]]

\* date ranges 'A-B' whose start year A is greater than their end year B
ReversedRanges ==
    {"2025-2020", "2025-2015", "9999-1000", "10-9", " 2021 - 2020 ", "2020--5"}

\* the string is two integers around its first hyphen, the first the greater
StartAfterEnd(s) ==
    /\ Find(s, "-") > 0
    /\ \E a \in {ParseInt(SubSeq(s, 1, Find(s, "-") - 1))},
          b \in {ParseInt(SubSeq(s, Find(s, "-") + 1, Len(s)))} :
            a.ok /\ b.ok /\ a.v > b.v

\* C23: load_config returns no configuration, and leaves with an error, for
\* every configuration whose date_range 'A-B' has A > B, the other fields
\* being valid; so does _validate_date_range
C23_RejectsStartAfterEnd ==
    /\ Returned("load_config") =>
          /\ call.input_data.date_range \in ReversedRanges => ~ret.val.ok
          /\ StartAfterEnd(call.input_data.date_range) =>
                ret.val = [ok |-> FALSE, raised |-> "SystemExit"]
    /\ Returned("validate_date_range") =>
          /\ call.date_range \in ReversedRanges => ~ret.val.ok
          /\ StartAfterEnd(call.date_range) =>
                ret.val = [ok |-> FALSE, raised |-> "ValueError"]

\* C23 witness: the configuration of the test, valid but for its range
\* '2025-2015', was rejected
C23_Witness ==
    /\ Returned("load_config")
    /\ call.input_data = [date_range |-> "2025-2015",
                          inclusion_criteria |-> <<"journal">>,
                          exclusion_criteria |-> <<"review">>]
    /\ StartAfterEnd("2025-2015")
    /\ ~ret.val.ok

IsOutside(reason) == StartsWith(reason, "Published outside ")
IsMissingInclusion(reason) == StartsWith(reason, "Missing inclusion")

\* the 'Has exclusion' text of an exclusion criterion of the run
ExclusionText(criteria) ==
    IF Find(criteria, ":") = 0 THEN "Has exclusion: " \o criteria
    ELSE IF ClaimField(criteria) = "type"
         THEN "Has exclusion type: " \o ClaimValue(criteria)
         ELSE "Has exclusion " \o ClaimField(criteria) \o ": " \o ClaimValue(criteria)

RECURSIVE InOrderOf(_, _)
\* the texts q are the texts of some of the criteria, in the order of the
\* criteria
InOrderOf(q, criteria_list) ==
    IF Len(q) = 0 THEN TRUE
    ELSE IF Len(criteria_list) = 0 THEN FALSE
    ELSE \/ /\ Head(q) = ExclusionText(Head(criteria_list))
            /\ InOrderOf(Tail(q), Tail(criteria_list))
         \/ InOrderOf(q, Tail(criteria_list))

\* the record meets no criterion of the non-empty inclusion list of the run
MeetsNoInclusion(r) ==
    /\ Len(inclusion_criteria) > 0
    /\ \A k \in 1..Len(inclusion_criteria) : ~ClaimMeets(r, inclusion_criteria[k])

C25_CheckFalseIffAllMissing ==
    /\ (Returned("check_criteria_match") /\ Len(call.criteria_list) > 0) =>
            \A label \in {"inclusion", "exclusion"} :
                (ret.val = FALSE) <=>
                    (Len(get_criteria_mismatch_reasons(call.publication,
                                                       call.criteria_list, label))
                        = Len(call.criteria_list))
    /\ (Returned("get_criteria_mismatch_reasons") /\ Len(call.criteria_list) > 0) =>
            /\ Len(ret.val) <= Len(call.criteria_list)
            /\ (Len(ret.val) = Len(call.criteria_list)) <=>
                    ~check_criteria_match(call.publication, call.criteria_list)
            /\ Len(ret.val) =
                    Cardinality({k \in 1..Len(call.criteria_list) :
                                    ~ClaimMeets(call.publication, call.criteria_list[k])})

\* C25 witness: a record that passes the check on one criterion of two and
\* still gets a mismatch reason for the other
C25_Witness ==
    /\ Returned("get_criteria_mismatch_reasons")
    /\ call.publication = PubMedicine
    /\ call.criteria_list = <<"journal", "conference">>
    /\ check_criteria_match(call.publication, call.criteria_list)
    /\ ret.val = <<"Missing " \o call.criteria_type \o ": conference">>

\* the identity keys of the records of xs
KeysOf(xs) == {ClaimKey(xs[k]) : k \in 1..Len(xs)}

\* C26 (step part): the deduplication step runs before any record is
\* evaluated or counted; the records it leaves have pairwise different
\* identity keys, one per key of the fetched records, and their number plus
\* total_duplicates is the number of fetched records; the evaluation and the
\* reporting change neither the records nor total_duplicates, and
\* total_records is the number of the records left
C26_Step ==
    /\ (pc = "dedupe") =>
            /\ i = 0 /\ results = <<>>
            /\ criteria_counts.inclusion = 0 /\ criteria_counts.exclusion = 0
            /\ Len(publications') + total_duplicates' = Len(publications)
            /\ Cardinality(KeysOf(publications')) = Len(publications')
            /\ KeysOf(publications') = KeysOf(publications)
    /\ (pc = "select") =>
            /\ publications' = publications
            /\ total_duplicates' = total_duplicates
            /\ Cardinality(KeysOf(publications)) = Len(publications)
            /\ i' > i => results'[i'].Title = publications[i'].Title
    /\ (pc' = "done") =>
            /\ total_records' = Len(publications')
            /\ total_records' = Cardinality(KeysOf(publications'))
            /\ Len(results') = total_records'

\* C26: every evaluated record has an identity key different from that of
\* every other evaluated record, total_records is the number of unique
\* records, and total_records + total_duplicates is the number of records
\* fetched
C26_DedupBeforeEvaluation == [][C26_Step]_vars

\* C26 witness: a run that fetched the same record twice ends with one
\* record evaluated and one duplicate counted
C26_Witness ==
    /\ pc = "done"
    /\ total_duplicates = 1
    /\ total_records = 1
    /\ Len(results) = 1

\* C27: in every result row Reasons is 'Meets all criteria' exactly when
\* Included is 'Yes': an included record carries no reason and every record
\* with Included 'No' carries at least one
C27_MeetsAllIffIncluded ==
    \A k \in 1..Len(results) :
        (results[k].Reasons = "Meets all criteria") <=> (results[k].Included = "Yes")

\* C27, the half that holds: an included record carries no reason
C27_IncludedHasNoReason ==
    \A k \in 1..Len(results) :
        (results[k].Included = "Yes") => (results[k].Reasons = "Meets all criteria")

\* the exclusion list of the run is non-empty and none of its bare criteria
\* is padded
ExclusionListPlain ==
    /\ Len(exclusion_criteria) > 0
    /\ \A k \in 1..Len(exclusion_criteria) :
            Find(exclusion_criteria[k], ":") = 0 =>
                Strip(exclusion_criteria[k]) = exclusion_criteria[k]

\* C27, where the other half holds: with a non-empty exclusion list without
\* padded bare criteria every record with Included 'No' carries a reason
C27_ExcludedHasReason ==
    ExclusionListPlain =>
        \A k \in 1..Len(results) :
            (results[k].Included = "No") => (results[k].Reasons # "Meets all criteria")

\* after i records: one row per record processed, in the order of the
\* records, and every one of them counted once; at the end the two counters
\* add up to total_records
C28_Invariant ==
    /\ Len(results) = i
    /\ i = criteria_counts.inclusion + criteria_counts.exclusion
    /\ i <= Len(publications)
    /\ \A k \in 1..Len(results) :
            /\ results[k].Title = publications[k]["Title"]
            /\ results[k].Authors = publications[k]["Authors"]
            /\ results[k].Year = publications[k]["Year"]
            /\ results[k].Journal = publications[k]["Journal"]
    /\ (pc = "done") =>
            criteria_counts.inclusion + criteria_counts.exclusion = total_records

\* no step takes a row away or decreases a counter, and a step of the loop
\* processes exactly one record
C28_Monotone ==
    /\ criteria_counts'.inclusion >= criteria_counts.inclusion
    /\ criteria_counts'.exclusion >= criteria_counts.exclusion
    /\ Len(results') >= Len(results)
    /\ SubSeq(results', 1, Len(results)) = results
    /\ i' \in {i, i + 1}

\* C28: after k records have been processed len(results) = k =
\* counts.inclusion + counts.exclusion, the rows are in the order of the
\* records, neither counter has ever decreased, and at the end the sum of
\* the counters is total_records
C28_LoopInvariant == []C28_Invariant /\ [][C28_Monotone]_vars

\* C28 witness: a finished run of two records, one counted as included and
\* one as excluded
C28_Witness ==
    /\ pc = "done"
    /\ Len(results) = 2
    /\ criteria_counts.inclusion = 1
    /\ criteria_counts.exclusion = 1
    /\ total_records = 2

\* the value of the raw criterion is empty after trimming
EmptyValued(raw) == ClaimValue(raw) = ""

\* the reason a mismatch of the raw criterion would be reported with
MismatchText(raw, label) ==
    IF ClaimField(raw) = "type"
    THEN "Missing " \o label \o ": " \o ClaimValue(raw)
    ELSE "Missing " \o label \o " " \o ClaimField(raw) \o ": " \o ClaimValue(raw)

\* C29: a criterion whose value is empty after trimming ('', blanks, or
\* 'field:') matches every record, also one without the attribute: a list
\* that holds it passes check_criteria_match for every record, as inclusion
\* list and as exclusion list, and it never appears among the mismatch
\* reasons
C29_EmptyValueMatchesAll ==
    /\ (Returned("check_criteria_match")
            /\ \E k \in 1..Len(call.criteria_list) : EmptyValued(call.criteria_list[k]))
        => ret.val = TRUE
    /\ Returned("get_criteria_mismatch_reasons") =>
            /\ \A k \in 1..Len(call.criteria_list) :
                    EmptyValued(call.criteria_list[k]) =>
                        /\ ClaimMeets(call.publication, call.criteria_list[k])
                        /\ ~InSeq(MismatchText(call.criteria_list[k], call.criteria_type),
                                  ret.val)
            /\ Len(ret.val) <= Cardinality({k \in 1..Len(call.criteria_list) :
                                               ~EmptyValued(call.criteria_list[k])})

\* C29 witness: a record without Language passes the check on 'language:'
\* next to a criterion it does not meet
C29_Witness ==
    /\ Returned("check_criteria_match")
    /\ call.publication = PubNoSource
    /\ call.criteria_list = <<"conference", "language:">>
    /\ ret.val = TRUE

\* C29 witness for the reasons: the blank criterion is not among the
\* mismatch reasons of a record that the other criterion of the list misses
C29_WitnessReasons ==
    /\ Returned("get_criteria_mismatch_reasons")
    /\ call.publication = PubNoSource
    /\ call.criteria_list = <<"  ", "conference">>
    /\ ret.val = <<"Missing " \o call.criteria_type \o ": conference">>

\* C30: every date_range that load_config accepts is parsed by
\* parse_date_range without exiting, into a pair with start <= end
C30_AcceptedDatesParse ==
    (Returned("load_config") /\ ret.val.ok) =>
        \E parsed \in {parse_date_range(ret.val.config.date_range)} :
            /\ parsed.ok
            /\ parsed.start <= parsed.end

\* C30 witness: an accepted range with blanks around its years, which
\* parse_date_range turns into (2020, 2023)
C30_Witness ==
    /\ Returned("load_config")
    /\ ret.val.ok
    /\ ret.val.config.date_range = " 2020 - 2023 "
    /\ parse_date_range(ret.val.config.date_range)
            = [ok |-> TRUE, start |-> 2020, end |-> 2023]

=============================================================================
